---- MODULE Spec2Model ----
\* A model of plaso's Windows NT Registry (REGF) parser, WinRegistryParser
\* (plaso/parsers/winreg.py): hive type detection, the plugin table, the
\* recursive key traversal, the per-key plugin dispatch and GetEvents.
\*
\* Parse is a Python generator.  Its consumer drives it with next(): the
\* action Pull hands control to the generator, the generator's own steps run
\* while `running` holds, and a yield hands control (and one event) back.
EXTENDS Integers, Sequences, FiniteSets, TLC

VARIABLES
  file,             \* the file object handed to Parse: what read(4)/OpenFile do
  hive,             \* the opened hive: the set of its key paths (prefix-closed)
  build,            \* the interpreter's dict implementation
  regTypeOrder,     \* the order the dict REG_TYPES enumerates its keys in
  catalog,          \* self._plugins: the registered plugin classes, in order
  weightList,       \* what self._plugins.GetWeights() returns
  pc,               \* position of the Parse generator
  running,          \* TRUE while the consumer is inside next()
  registry_type,    \* Parse's local registry_type
  self_registry_type, \* the field self._registry_type
  plugins,          \* Parse's local dict plugins: [keys (insertion order), val]
  recurse,          \* the _RecurseKey generator chain: [started, root, stack]
  key,              \* Parse's loop variable key
  parsed,           \* Parse's local parsed
  weights,          \* the weights the loop `for weight in plugins` has left
  plist,            \* the plugins the loop `for plugin in plugins[weight]` has left
  plugin,           \* the plugin whose call_back is being drained by GetEvents
  call_back,        \* the result being drained by GetEvents
  event_index,      \* how many events of call_back GetEvents has taken
  error,            \* the exception Parse ended with ("" while there is none)
  calls,            \* history: the calls made on the collaborators, in order
  visited,          \* history: the keys _RecurseKey has yielded, in order
  emitted,          \* history: the events Parse has yielded, in order
  other             \* a second Parse stream of the same parser object: [present, hive, pulls]

vars == <<file, hive, build, regTypeOrder, catalog, weightList, pc, running,
          registry_type,
          self_registry_type, plugins, recurse, key, parsed, weights, plist,
          plugin, call_back, event_index, error, calls, visited, emitted,
          other>>

\* ---------------------------------------------------------------- bounds

\* The most plugin classes a catalog of the model registers.
MaxPlugins == 2
\* The most keys of a hive drawn for the traversal specification.
MaxKeys == 5
\* The most keys of a hive drawn for the specifications that run to the end
\* under fairness or over a malformed key graph.
MaxTreeKeys == 3
\* The most _RecurseKey generators the interpreter lets nest in one another
\* (its recursion limit, far above the depth of any tree of the model).
MaxDepth == 6

\* ---------------------------------------------------------------- values

\* Python's None among integer-valued attributes (offsets are never negative).
None == 0 - 1
\* Python's None where a key object is expected (no key path has an empty segment).
NoKey == <<"">>

\* The key names of the model, in the order GetSubkeys lists siblings.
Names == <<"Software", "Microsoft", "Windows", "CurrentVersion", "Explorer",
           "App Paths", "Policy", "PolAdtEv", "Select", "SAM", "Domains",
           "Account", "Users">>

NameIndex(n) == CHOOSE i \in 1..Len(Names) : Names[i] = n

Range(s) == {s[i] : i \in DOMAIN s}

\* The permutations of a finite set, as sequences.
RECURSIVE Perms(_)
Perms(S) ==
  IF S = {} THEN {<<>>}
  ELSE UNION {{<<x>> \o p : p \in Perms(S \ {x})} : x \in S}

\* The sequences without repetition of at most n elements of S.
RECURSIVE InjSeqs(_, _)
InjSeqs(S, n) ==
  IF n = 0 THEN {<<>>}
  ELSE LET shorter == InjSeqs(S, n - 1)
       IN shorter \cup
            UNION {{Append(s, x) : x \in S \ Range(s)} : s \in shorter}

\* ---------------------------------------------------------------- REG_TYPES

RegTypeNames == {"NTUSER", "SOFTWARE", "SECURITY", "SYSTEM", "SAM", "UNKNOWN"}

\* REG_TYPES: the key paths required to identify each registry type.
REG_TYPES(reg_type) ==
  CASE reg_type = "NTUSER" ->
         << <<"Software", "Microsoft", "Windows", "CurrentVersion", "Explorer">> >>
    [] reg_type = "SOFTWARE" ->
         << <<"Microsoft", "Windows", "CurrentVersion", "App Paths">> >>
    [] reg_type = "SECURITY" -> << <<"Policy", "PolAdtEv">> >>
    [] reg_type = "SYSTEM" -> << <<"Select">> >>
    [] reg_type = "SAM" -> << <<"SAM", "Domains", "Account", "Users">> >>
    [] reg_type = "UNKNOWN" -> <<>>

\* The order REG_TYPES is written in (what an insertion-ordered dict enumerates).
RegTypesSourceOrder ==
  <<"NTUSER", "SOFTWARE", "SECURITY", "SYSTEM", "SAM", "UNKNOWN">>

\* The order CPython 2's hash table enumerates these six str keys in.
RegTypesHashOrder ==
  <<"SAM", "NTUSER", "SYSTEM", "UNKNOWN", "SECURITY", "SOFTWARE">>

Builds == {"cpython2", "ordered"}

\* `for reg_type in self.REG_TYPES`: the enumeration order of the dict.
RegTypeOrder(b) ==
  IF b = "cpython2" THEN RegTypesHashOrder ELSE RegTypesSourceOrder

\* ---------------------------------------------------------------- the hive

\* winreg_file.GetKeyByPath(path): the key at that path, or None.
GetKeyByPath(h, path) == IF path \in h THEN path ELSE NoKey

\* The name under which a malformed hive records that the subkey list of a
\* key holds one more entry, which points back at the root key.
BackLink == "<root>"

\* key.GetSubkeys(): the key's children, in sibling order, then the key its
\* list points back at when the hive is malformed.
GetSubkeys(h, k) ==
  SelectSeq([i \in 1..Len(Names) |-> Append(k, Names[i])], LAMBDA p : p \in h)
    \o (IF Append(k, BackLink) \in h THEN << <<>> >> ELSE <<>>)

\* key.offset.
KeyOffset(k) ==
  IF k = <<>> THEN 4096 ELSE 4096 + 64 * Len(k) + NameIndex(k[Len(k)])

\* The prefixes of a path, the path itself and the root included.
Prefixes(p) == {SubSeq(p, 1, n) : n \in 0..Len(p)}

\* The hive whose keys are the given paths and the keys on the way to them.
HiveOf(paths) == UNION {Prefixes(p) : p \in paths}

\* ---------------------------------------------------------------- dicts

\* An empty slot of a hash table.
Empty == None

\* CPython 2's open addressing for a table of 8 slots (a dict of at most 5
\* keys never resizes): the slot an int key lands in, probing from i.
RECURSIVE Py2Probe(_, _, _, _)
Py2Probe(table, k, i, perturb) ==
  IF table[i % 8] = Empty \/ table[i % 8] = k THEN i % 8
  ELSE Py2Probe(table, k, 5 * i + perturb + 1, perturb \div 32)

\* The table after the keys of a sequence were inserted in order (the hash
\* of a small non-negative int is the int).
RECURSIVE Py2Table(_)
Py2Table(ks) ==
  IF ks = <<>> THEN [i \in 0..7 |-> Empty]
  ELSE LET t == Py2Table(SubSeq(ks, 1, Len(ks) - 1))
           k == ks[Len(ks)]
       IN [t EXCEPT ![Py2Probe(t, k, k % 8, k)] = k]

\* A sequence without its repeated elements, first occurrences kept.
RECURSIVE Distinct(_)
Distinct(ks) ==
  IF ks = <<>> THEN <<>>
  ELSE LET d == Distinct(SubSeq(ks, 1, Len(ks) - 1))
       IN IF ks[Len(ks)] \in Range(d) THEN d ELSE Append(d, ks[Len(ks)])

\* `for weight in plugins`: the order a dict with int keys, inserted in the
\* order ks, enumerates them in.
DictKeys(b, ks) ==
  IF b = "cpython2"
  THEN LET t == Py2Table(ks)
       IN SelectSeq([i \in 1..8 |-> t[i - 1]], LAMBDA k : k # Empty)
  ELSE Distinct(ks)

\* ---------------------------------------------------------------- plugins

\* The stub plugin classes of the model.  match says which keys Process
\* answers for, result what it answers with; type is the registry type the
\* class is registered for ("ANY": every type).
PluginClasses ==
  { [plugin_name |-> "AppPaths", weight |-> 10, type |-> "SOFTWARE",
     match |-> "name", result |-> "one_unset"],
    [plugin_name |-> "KeyAny", weight |-> 1, type |-> "ANY",
     match |-> "any", result |-> "two_set"],
    [plugin_name |-> "Leaf", weight |-> 3, type |-> "ANY",
     match |-> "leaf", result |-> "one_unset"],
    [plugin_name |-> "Default", weight |-> 10, type |-> "ANY",
     match |-> "any", result |-> "one_unset"],
    [plugin_name |-> "Raiser", weight |-> 3, type |-> "ANY",
     match |-> "leaf", result |-> "raise"],
    [plugin_name |-> "EmptyList", weight |-> 1, type |-> "ANY",
     match |-> "any", result |-> "empty_list"],
    [plugin_name |-> "EmptyGen", weight |-> 3, type |-> "ANY",
     match |-> "leaf", result |-> "empty_generator"],
    [plugin_name |-> "SystemOnly", weight |-> 1, type |-> "SYSTEM",
     match |-> "any", result |-> "one_unset"] }

\* The stub plugin classes of the runs about URLs.  URLS is the class
\* attribute; with result "self" Process returns the plugin object itself,
\* which iterates over one event and carries the attribute.
UrlPluginClasses ==
  { [plugin_name |-> "UrlSelf", weight |-> 1, type |-> "ANY",
     match |-> "any", result |-> "self", URLS |-> <<"http://a", "http://b">>],
    [plugin_name |-> "UrlList", weight |-> 1, type |-> "ANY",
     match |-> "any", result |-> "one_unset", URLS |-> <<"http://a", "http://b">>],
    [plugin_name |-> "NoUrlSelf", weight |-> 3, type |-> "ANY",
     match |-> "any", result |-> "self", URLS |-> <<>>],
    [plugin_name |-> "UrlLeaf", weight |-> 3, type |-> "ANY",
     match |-> "leaf", result |-> "self", URLS |-> <<"http://c">>] }

\* self._plugins.GetWeightPlugins(weight, registry_type): the classes
\* registered at that weight for that type or for every type, in catalog order.
GetWeightPlugins(cat, weight, reg_type) ==
  SelectSeq(cat, LAMBDA c : c.weight = weight /\ c.type \in {reg_type, "ANY"})

\* A plugin loop that instantiates the classes of every registry type.
PluginListEveryType(cat, weight, reg_type) ==
  SelectSeq(cat, LAMBDA c : c.weight = weight)

\* A plugin loop that fills plugins[weight] back to front.
PluginListReversed(cat, weight, reg_type) ==
  LET classes == GetWeightPlugins(cat, weight, reg_type)
  IN [i \in 1..Len(classes) |-> classes[Len(classes) + 1 - i]]

\* Lines 107-111: the list plugins[weight] after the loop `for plugin in
\* plist` has appended an instance of every class of plist, in its order.
PluginList(cat, weight, reg_type) == GetWeightPlugins(cat, weight, reg_type)

\* Whether a stub class answers for a key.
Matches(c, h, k) ==
  CASE c.match = "any" -> TRUE
    [] c.match = "leaf" -> GetSubkeys(h, k) = <<>>
    [] c.match = "name" -> k # <<>> /\ k[Len(k)] = "App Paths"

\* plugin.Process(key): [raises, kind, events].  kind is the Python type of
\* the returned object: "None", "list", "generator" or "object" (the plugin
\* itself, which then has the field URLS); a raw event is a record that has
\* an offset field only when the plugin set the attribute.
Process(c, h, k) ==
  IF ~Matches(c, h, k)
  THEN [raises |-> FALSE, kind |-> "None", events |-> <<>>]
  ELSE CASE c.result = "one_unset" ->
              [raises |-> FALSE, kind |-> "list", events |-> << [id |-> 1] >>]
         [] c.result = "two_set" ->
              [raises |-> FALSE, kind |-> "list",
               events |-> << [id |-> 1, offset |-> 7],
                             [id |-> 2, offset |-> None] >>]
         [] c.result = "empty_list" ->
              [raises |-> FALSE, kind |-> "list", events |-> <<>>]
         [] c.result = "empty_generator" ->
              [raises |-> FALSE, kind |-> "generator", events |-> <<>>]
         [] c.result = "raise" ->
              [raises |-> TRUE, kind |-> "None", events |-> <<>>]
         [] c.result = "self" ->
              [raises |-> FALSE, kind |-> "object", events |-> << [id |-> 1] >>,
               URLS |-> c.URLS]

\* `if call_back:`: Python's truth value of what Process returned.  None and
\* an empty list are false; a generator object is true whatever it yields,
\* and so is an object that defines neither __len__ nor __nonzero__.
Truthy(cb) ==
  CASE cb.kind = "None" -> FALSE
    [] cb.kind = "list" -> Len(cb.events) > 0
    [] cb.kind = "generator" -> TRUE
    [] cb.kind = "object" -> TRUE

\* ---------------------------------------------------------------- GetEvents

\* A getattr that ignores the attribute the plugin set.
GetAttrOffsetDefaultOnly(event_object, default) == default

\* getattr(event_object, 'offset', default).
GetAttrOffset(event_object, default) ==
  IF "offset" \in DOMAIN event_object THEN event_object.offset ELSE default

\* getattr(call_back, 'URLS', None), None read as the empty collection (both
\* are false for the `if`).
GetAttrURLS(cb) == IF "URLS" \in DOMAIN cb THEN cb.URLS ELSE <<>>

\* sep.join(strings).
RECURSIVE Join(_, _)
Join(sep, strings) ==
  IF strings = <<>> THEN ""
  ELSE IF Len(strings) = 1 THEN strings[1]
  ELSE strings[1] \o sep \o Join(sep, Tail(strings))

\* The body of GetEvents' loop, then Parse's `event_object.plugin = ...`.
\* The event has a url field only when line 155 sets it.
EnrichEvent(event_object, k, field_registry_type, plugin_name, cb) ==
  IF GetAttrURLS(cb) # <<>>
  THEN [id |-> event_object.id,
        offset |-> GetAttrOffset(event_object, KeyOffset(k)),
        registry_type |-> field_registry_type,
        url |-> Join(" - ", GetAttrURLS(cb)),
        plugin |-> plugin_name]
  ELSE [id |-> event_object.id,
        offset |-> GetAttrOffset(event_object, KeyOffset(k)),
        registry_type |-> field_registry_type,
        plugin |-> plugin_name]

\* ---------------------------------------------------------------- detection

\* A detection loop that does not skip UNKNOWN.
SkipRegTypeNever(reg_type) == FALSE

\* `if reg_type == 'UNKNOWN': continue`.
SkipRegType(reg_type) == reg_type = "UNKNOWN"

\* The inner loop: the known key paths GetKeyByPath is asked for, up to and
\* including the first one it does not find.
RECURSIVE ProbedPaths(_, _)
ProbedPaths(h, paths) ==
  IF paths = <<>> THEN <<>>
  ELSE IF GetKeyByPath(h, paths[1]) = NoKey THEN <<paths[1]>>
  ELSE <<paths[1]>> \o ProbedPaths(h, SubSeq(paths, 2, Len(paths)))

\* The test of the inner loop inverted: a type is taken when none of its
\* known keys is found.
KnownKeysFoundInverted(h, reg_type) ==
  \A i \in DOMAIN REG_TYPES(reg_type) :
     GetKeyByPath(h, REG_TYPES(reg_type)[i]) = NoKey

\* known_keys_found after the inner loop.
KnownKeysFound(h, reg_type) ==
  \A i \in DOMAIN REG_TYPES(reg_type) :
     GetKeyByPath(h, REG_TYPES(reg_type)[i]) # NoKey

\* The detection loop over the rest of the enumeration: [type, probed].
RECURSIVE DetectFrom(_, _)
DetectFrom(h, order) ==
  IF order = <<>> THEN [type |-> "UNKNOWN", probed |-> <<>>]
  ELSE LET reg_type == order[1]
           rest == SubSeq(order, 2, Len(order))
       IN IF SkipRegType(reg_type) THEN DetectFrom(h, rest)
          ELSE LET probes == [i \in 1..Len(ProbedPaths(h, REG_TYPES(reg_type))) |->
                                [op |-> "GetKeyByPath", arg |-> reg_type,
                                 key |-> ProbedPaths(h, REG_TYPES(reg_type))[i]]]
               IN IF KnownKeysFound(h, reg_type)
                  THEN [type |-> reg_type, probed |-> probes]
                  ELSE LET r == DetectFrom(h, rest)
                       IN [type |-> r.type, probed |-> probes \o r.probed]

\* ---------------------------------------------------------------- _RecurseKey

\* A _RecurseKey without its guard against a missing key.
NotKeyNever(k) == FALSE

\* `if not key: return`.
NotKey(k) == k = NoKey

\* Resuming the chain of nested _RecurseKey generators, innermost frame last.
\* A frame [key, i] has yielded its key and started the generators of its
\* first i subkeys.  The result is the chain and the key yielded next, or
\* stop when the outermost generator is exhausted, or error when the chain
\* would nest deeper than the interpreter allows (RuntimeError: maximum
\* recursion depth exceeded).
RECURSIVE RecurseResume(_, _)
RecurseResume(h, stack) ==
  IF stack = <<>>
  THEN [stack |-> <<>>, key |-> NoKey, stop |-> TRUE, error |-> FALSE]
  ELSE LET top == stack[Len(stack)]
           subkeys == GetSubkeys(h, top.key)
       IN IF top.i < Len(subkeys)
          THEN LET subkey == subkeys[top.i + 1]
                   advanced == [stack EXCEPT ![Len(stack)].i = top.i + 1]
               IN IF NotKey(subkey) THEN RecurseResume(h, advanced)
                  ELSE IF Len(advanced) >= MaxDepth
                  THEN [stack |-> <<>>, key |-> NoKey, stop |-> TRUE,
                        error |-> TRUE]
                  ELSE [stack |-> Append(advanced, [key |-> subkey, i |-> 0]),
                        key |-> subkey, stop |-> FALSE, error |-> FALSE]
          ELSE RecurseResume(h, SubSeq(stack, 1, Len(stack) - 1))

\* A _RecurseKey that yields every subkey of the key but not the key itself.
RecurseKeySubkeysOnly(h, gen) ==
  IF ~gen.started
  THEN LET r == RecurseResume(h, <<[key |-> gen.root, i |-> 0]>>)
       IN [gen |-> [gen EXCEPT !.started = TRUE, !.stack = r.stack],
           key |-> r.key, stop |-> r.stop, error |-> r.error]
  ELSE LET r == RecurseResume(h, gen.stack)
       IN [gen |-> [gen EXCEPT !.stack = r.stack], key |-> r.key,
           stop |-> r.stop, error |-> r.error]

\* next() on the generator _RecurseKey(root): [gen, key, stop, error], stop
\* when the generator is exhausted (StopIteration), error when next() raises.
RecurseKey(h, gen) ==
  IF ~gen.started
  THEN IF NotKey(gen.root)
       THEN [gen |-> [gen EXCEPT !.started = TRUE], key |-> NoKey,
             stop |-> TRUE, error |-> FALSE]
       ELSE [gen |-> [gen EXCEPT !.started = TRUE,
                                 !.stack = <<[key |-> gen.root, i |-> 0]>>],
             key |-> gen.root, stop |-> FALSE, error |-> FALSE]
  ELSE LET r == RecurseResume(h, gen.stack)
       IN [gen |-> [gen EXCEPT !.stack = r.stack], key |-> r.key,
           stop |-> r.stop, error |-> r.error]

\* ---------------------------------------------------------------- inputs

\* What the file object is: a REGF file, a file with another magic, or a
\* REGF file that OpenFile fails on with IOError.
Files == {"regf", "wrong_magic", "io_error"}

\* The key path of the second end-to-end hive.
AppPathsUnderSoftware ==
  <<"Software", "Microsoft", "Windows", "CurrentVersion", "App Paths">>

\* The hives of the dispatch specification: no root key; a root key alone;
\* the required key of SOFTWARE; the same key one level down, under
\* \Software; the required keys of both SYSTEM and SECURITY.
Hives ==
  { HiveOf({}),
    HiveOf({<<>>}),
    HiveOf({REG_TYPES("SOFTWARE")[1]}),
    HiveOf({AppPathsUnderSoftware}),
    HiveOf({REG_TYPES("SYSTEM")[1], REG_TYPES("SECURITY")[1]}) }

\* The catalogs: at most MaxPlugins distinct classes, in any order.
Catalogs == InjSeqs(PluginClasses, MaxPlugins)

\* self._plugins.GetWeights() lists the weights registered in the catalog,
\* each once, in an order that is the catalog's own business.
WeightLists(cat) == Perms({cat[i].weight : i \in DOMAIN cat})

\* ---------------------------------------------------------------- Parse

Call(op, arg, k) == [op |-> op, arg |-> arg, key |-> k]

\* The instantiations `plugin(winreg_file, self._pre_obj, registry_cache)` of
\* the loop over GetWeights(), in order.
RECURSIVE InstantiateCalls(_, _, _)
InstantiateCalls(cat, ws, reg_type) ==
  IF ws = <<>> THEN <<>>
  ELSE LET classes == GetWeightPlugins(cat, ws[1], reg_type)
       IN [i \in 1..Len(classes) |->
             Call("Instantiate", classes[i].plugin_name, <<>>)]
          \o InstantiateCalls(cat, SubSeq(ws, 2, Len(ws)), reg_type)

\* A Parse that builds the cache twice.
BuildCacheCallsTwice(reg_type) ==
  <<Call("BuildCache", reg_type, <<>>), Call("BuildCache", reg_type, <<>>)>>

\* Lines 101-102: the calls on the cache, built for the detected type.
BuildCacheCalls(reg_type) == <<Call("BuildCache", reg_type, <<>>)>>

\* An iteration that steps over every other event.
NextEventIndexSkipping(i) == i + 2

\* `for event_object in call_back`: the index of the event taken after i.
NextEventIndex(i) == i + 1

\* No second Parse stream is started on the parser object.
NoOther == [present |-> FALSE, hive |-> {}, pulls |-> 0]

Init ==
  /\ file \in Files
  /\ hive \in Hives
  /\ build \in Builds
  /\ regTypeOrder = RegTypeOrder(build)
  /\ catalog \in Catalogs
  /\ weightList \in WeightLists(catalog)
  /\ pc = "start"
  /\ running = FALSE
  /\ registry_type = "UNKNOWN"
  /\ self_registry_type = "UNKNOWN"
  /\ plugins = [keys |-> <<>>, val |-> <<>>]
  /\ recurse = [started |-> FALSE, root |-> NoKey, stack |-> <<>>]
  /\ key = NoKey
  /\ parsed = FALSE
  /\ weights = <<>>
  /\ plist = <<>>
  /\ plugin = ""
  /\ call_back = [raises |-> FALSE, kind |-> "None", events |-> <<>>]
  /\ event_index = 0
  /\ error = ""
  /\ calls = <<>>
  /\ visited = <<>>
  /\ emitted = <<>>
  /\ other = NoOther

\* The consumer calls next() on the generator Parse returned.
Pull ==
  /\ ~running
  /\ pc \notin {"done", "raised"}
  /\ running' = TRUE
  /\ UNCHANGED <<other, file, hive, build, regTypeOrder, catalog, weightList, pc,
                 registry_type, self_registry_type, plugins, recurse, key,
                 parsed, weights, plist, plugin, call_back, event_index, error,
                 calls, visited, emitted>>

\* Lines 62-78: the magic is read and compared, then the file is opened.
OpenFile ==
  /\ running
  /\ pc = "start"
  /\ IF file = "wrong_magic"
     THEN /\ calls' = Append(calls, Call("read", "", <<>>))
          /\ pc' = "raised"
          /\ error' = "UnableToParseFile"
          /\ running' = FALSE
     ELSE IF file = "io_error"
     THEN /\ calls' = calls \o <<Call("read", "", <<>>), Call("OpenFile", "", <<>>)>>
          /\ pc' = "raised"
          /\ error' = "UnableToParseFile"
          /\ running' = FALSE
     ELSE /\ calls' = calls \o <<Call("read", "", <<>>), Call("OpenFile", "", <<>>)>>
          /\ pc' = "detect"
          /\ UNCHANGED <<error, running>>
  /\ UNCHANGED <<other, file, hive, build, regTypeOrder, catalog, weightList,
                 registry_type, self_registry_type, plugins, recurse, key,
                 parsed, weights, plist, plugin, call_back, event_index,
                 visited, emitted>>

\* Lines 80-97: the registry type is detected and stored in the field.
DetectRegistryType ==
  /\ running
  /\ pc = "detect"
  /\ LET r == DetectFrom(hive, regTypeOrder)
     IN /\ registry_type' = r.type
        /\ self_registry_type' = r.type
        /\ calls' = calls \o r.probed
  /\ pc' = "cache"
  /\ UNCHANGED <<other, file, hive, build, regTypeOrder, catalog, weightList, running,
                 plugins, recurse, key, parsed, weights, plist, plugin,
                 call_back, event_index, error, visited, emitted>>

\* Lines 101-102: the cache is built.
BuildCache ==
  /\ running
  /\ pc = "cache"
  /\ calls' = calls \o BuildCacheCalls(registry_type)
  /\ pc' = "plugins"
  /\ UNCHANGED <<other, file, hive, build, regTypeOrder, catalog, weightList, running,
                 registry_type, self_registry_type, plugins, recurse, key,
                 parsed, weights, plist, plugin, call_back, event_index, error,
                 visited, emitted>>

\* Lines 104-112: the dict plugins is filled, one list per weight.
LoadPlugins ==
  /\ running
  /\ pc = "plugins"
  /\ plugins' = [keys |-> weightList,
                 val |-> [w \in Range(weightList) |->
                            PluginList(catalog, w, registry_type)]]
  /\ calls' = calls \o <<Call("GetWeights", "", <<>>)>>
                    \o InstantiateCalls(catalog, weightList, registry_type)
  /\ pc' = "root"
  /\ UNCHANGED <<other, file, hive, build, regTypeOrder, catalog, weightList, running,
                 registry_type, self_registry_type, recurse, key, parsed,
                 weights, plist, plugin, call_back, event_index, error,
                 visited, emitted>>

\* Lines 121-122: the root key is looked up and handed to _RecurseKey.
GetRootKey ==
  /\ running
  /\ pc = "root"
  /\ recurse' = [started |-> FALSE, root |-> GetKeyByPath(hive, <<>>),
                 stack |-> <<>>]
  /\ calls' = Append(calls, Call("GetKeyByPath", "root", <<>>))
  /\ pc' = "key"
  /\ UNCHANGED <<other, file, hive, build, regTypeOrder, catalog, weightList, running,
                 registry_type, self_registry_type, plugins, key, parsed,
                 weights, plist, plugin, call_back, event_index, error,
                 visited, emitted>>

\* Lines 122-123: `for key in self._RecurseKey(root_key)` takes the next key,
\* or Parse returns when there is none; an exception of the traversal
\* leaves Parse.
NextKey ==
  /\ running
  /\ pc = "key"
  /\ LET r == RecurseKey(hive, recurse)
     IN /\ recurse' = r.gen
        /\ IF r.error
           THEN /\ pc' = "raised"
                /\ error' = "RuntimeError"
                /\ running' = FALSE
                /\ UNCHANGED <<key, parsed, weights, visited>>
           ELSE IF r.stop
           THEN /\ pc' = "done"
                /\ running' = FALSE
                /\ UNCHANGED <<key, parsed, weights, visited, error>>
           ELSE /\ key' = r.key
                /\ parsed' = FALSE
                /\ weights' = DictKeys(build, plugins.keys)
                /\ visited' = Append(visited, r.key)
                /\ pc' = "weight"
                /\ UNCHANGED <<running, error>>
  /\ UNCHANGED <<other, file, hive, build, regTypeOrder, catalog, weightList,
                 registry_type, self_registry_type, plugins, plist, plugin,
                 call_back, event_index, calls, emitted>>

\* Lines 124-127: `for weight in plugins`, left when parsed is set.
NextWeight ==
  /\ running
  /\ pc = "weight"
  /\ IF weights = <<>> \/ parsed
     THEN /\ pc' = "key"
          /\ UNCHANGED <<weights, plist>>
     ELSE /\ plist' = plugins.val[Head(weights)]
          /\ weights' = Tail(weights)
          /\ pc' = "plugin"
  /\ UNCHANGED <<other, file, hive, build, regTypeOrder, catalog, weightList, running,
                 registry_type, self_registry_type, plugins, recurse, key,
                 parsed, plugin, call_back, event_index, error, calls, visited,
                 emitted>>

\* Lines 127-130: `for plugin in plugins[weight]`: Process is called on the
\* key; an exception of it leaves Parse, a true result starts GetEvents.
NextPlugin ==
  /\ running
  /\ pc = "plugin"
  /\ IF plist = <<>>
     THEN /\ pc' = "weight"
          /\ UNCHANGED <<plist, parsed, plugin, call_back, event_index, error,
                         running, calls>>
     ELSE LET cb == Process(Head(plist), hive, key)
          IN /\ calls' = Append(calls, Call("Process", Head(plist).plugin_name, key))
             /\ IF cb.raises
                THEN /\ pc' = "raised"
                     /\ error' = "PluginError"
                     /\ running' = FALSE
                     /\ UNCHANGED <<plist, parsed, plugin, call_back, event_index>>
                ELSE IF Truthy(cb)
                THEN /\ parsed' = TRUE
                     /\ plugin' = Head(plist).plugin_name
                     /\ call_back' = cb
                     /\ event_index' = 0
                     /\ pc' = "events"
                     /\ UNCHANGED <<plist, error, running>>
                ELSE /\ plist' = Tail(plist)
                     /\ UNCHANGED <<pc, parsed, plugin, call_back, event_index,
                                    error, running>>
  /\ UNCHANGED <<other, file, hive, build, regTypeOrder, catalog, weightList,
                 registry_type, self_registry_type, plugins, recurse, key,
                 weights, visited, emitted>>

\* Lines 131-134 and GetEvents: the next event of call_back is stamped and
\* yielded; after the last one the loop over the weight's plugins is left.
NextEvent ==
  /\ running
  /\ pc = "events"
  /\ IF NextEventIndex(event_index) <= Len(call_back.events)
     THEN /\ event_index' = NextEventIndex(event_index)
          /\ emitted' = Append(emitted,
                [key |-> key,
                 raw |-> call_back.events[NextEventIndex(event_index)],
                 event |-> EnrichEvent(call_back.events[NextEventIndex(event_index)],
                                       key, self_registry_type, plugin,
                                       call_back)])
          /\ running' = FALSE
          /\ UNCHANGED pc
     ELSE /\ pc' = "weight"
          /\ UNCHANGED <<event_index, emitted, running>>
  /\ UNCHANGED <<other, file, hive, build, regTypeOrder, catalog, weightList,
                 registry_type, self_registry_type, plugins, recurse, key,
                 parsed, weights, plist, plugin, call_back, error, calls,
                 visited>>

Next ==
  \/ Pull
  \/ OpenFile
  \/ DetectRegistryType
  \/ BuildCache
  \/ LoadPlugins
  \/ GetRootKey
  \/ NextKey
  \/ NextWeight
  \/ NextPlugin
  \/ NextEvent

Spec == Init /\ [][Next]_vars

\* ---------------------------------------------------------------- traversal runs

\* The key names of the trees drawn for the traversal specification.
TreeNames == {"Software", "Microsoft", "Select"}

\* The hives of at most n keys over TreeNames: the hive without a root key,
\* and every tree grown from the root one key at a time.
RECURSIVE Trees(_)
Trees(n) ==
  IF n = 0 THEN {{}}
  ELSE LET smaller == Trees(n - 1)
       IN smaller \cup {{<<>>}} \cup
            UNION {{t \cup {Append(p, nm)} : p \in t, nm \in TreeNames} :
                     t \in smaller}

\* Parse over every small tree, with no plugin or with one that claims
\* every key.
InitTraverse ==
  /\ file = "regf"
  /\ hive \in Trees(MaxKeys)
  /\ build \in Builds
  /\ regTypeOrder = RegTypeOrder(build)
  /\ catalog \in {c \in Catalogs :
                    \A i \in DOMAIN c : c[i].plugin_name = "Default"}
  /\ weightList \in WeightLists(catalog)
  /\ pc = "start"
  /\ running = FALSE
  /\ registry_type = "UNKNOWN"
  /\ self_registry_type = "UNKNOWN"
  /\ plugins = [keys |-> <<>>, val |-> <<>>]
  /\ recurse = [started |-> FALSE, root |-> NoKey, stack |-> <<>>]
  /\ key = NoKey
  /\ parsed = FALSE
  /\ weights = <<>>
  /\ plist = <<>>
  /\ plugin = ""
  /\ call_back = [raises |-> FALSE, kind |-> "None", events |-> <<>>]
  /\ event_index = 0
  /\ error = ""
  /\ calls = <<>>
  /\ visited = <<>>
  /\ emitted = <<>>
  /\ other = NoOther

SpecTraverse == InitTraverse /\ [][Next]_vars

\* ---------------------------------------------------------------- detection runs

\* The registry types that have required keys.
KnownTypes == RegTypeNames \ {"UNKNOWN"}

\* The hives drawn for the detection specification: for every set of types,
\* the hive that holds the required keys of exactly those types.
DetectHives ==
  {HiveOf({<<>>} \cup UNION {Range(REG_TYPES(t)) : t \in S}) : S \in SUBSET KnownTypes}

\* The start of Parse on each of these hives, under every enumeration order
\* a dict of the six types can have.
InitDetect ==
  /\ file = "regf"
  /\ hive \in DetectHives
  /\ build = "ordered"
  /\ regTypeOrder \in Perms(RegTypeNames)
  /\ catalog = <<>>
  /\ weightList = <<>>
  /\ pc = "start"
  /\ running = FALSE
  /\ registry_type = "UNKNOWN"
  /\ self_registry_type = "UNKNOWN"
  /\ plugins = [keys |-> <<>>, val |-> <<>>]
  /\ recurse = [started |-> FALSE, root |-> NoKey, stack |-> <<>>]
  /\ key = NoKey
  /\ parsed = FALSE
  /\ weights = <<>>
  /\ plist = <<>>
  /\ plugin = ""
  /\ call_back = [raises |-> FALSE, kind |-> "None", events |-> <<>>]
  /\ event_index = 0
  /\ error = ""
  /\ calls = <<>>
  /\ visited = <<>>
  /\ emitted = <<>>
  /\ other = NoOther

\* Parse up to the end of the detection.
NextDetect ==
  \/ Pull
  \/ OpenFile
  \/ DetectRegistryType

SpecDetect == InitDetect /\ [][NextDetect]_vars

\* ---------------------------------------------------------------- vocabulary of the properties

\* The Process calls made for a key, in order.
ProcessCalls(k) == SelectSeq(calls, LAMBDA c : c.op = "Process" /\ c.key = k)

\* The events yielded for a key, in order.
EventsFor(k) == SelectSeq(emitted, LAMBDA e : e.key = k)

\* The plugin class of a name.
ClassOf(name) ==
  CHOOSE c \in PluginClasses \cup UrlPluginClasses : c.plugin_name = name

\* The plugins of the dict in the order the two loops scan them.
RECURSIVE Flatten(_, _)
Flatten(val, ws) ==
  IF ws = <<>> THEN <<>> ELSE val[ws[1]] \o Flatten(val, SubSeq(ws, 2, Len(ws)))

ScanOrder == Flatten(plugins.val, DictKeys(build, plugins.keys))

\* A result that holds at least one event.
NonEmpty(cb) == ~cb.raises /\ Len(cb.events) > 0

\* The n-th visited key has been dispatched completely.
Dispatched(n) == n < Len(visited) \/ pc = "done"

\* The position in the scan of the first plugin whose result for the key is
\* non-empty, 0 when there is none.
FirstNonEmpty(scan, k) ==
  IF \E i \in DOMAIN scan : NonEmpty(Process(scan[i], hive, k))
  THEN CHOOSE i \in DOMAIN scan :
         /\ NonEmpty(Process(scan[i], hive, k))
         /\ \A j \in 1..(i - 1) : ~NonEmpty(Process(scan[j], hive, k))
  ELSE 0

\* The position in the scan of the first plugin whose result for the key is
\* true for `if call_back:`, 0 when there is none.
FirstTruthy(scan, k) ==
  IF \E i \in DOMAIN scan : Truthy(Process(scan[i], hive, k))
  THEN CHOOSE i \in DOMAIN scan :
         /\ Truthy(Process(scan[i], hive, k))
         /\ \A j \in 1..(i - 1) : ~Truthy(Process(scan[j], hive, k))
  ELSE 0

\* ---------------------------------------------------------------- C1

\* C1: every dispatched key is claimed by the first plugin of the scan
\* (weights in the order the loop takes them, plugins within a weight in list
\* order) whose Process result is non-empty: Process was called on exactly
\* the plugins up to that one and on none after it, and every event yielded
\* for the key is that plugin's.
C1_FirstNonEmptyClaims ==
  \A n \in DOMAIN visited :
     Dispatched(n) =>
       LET k == visited[n]
           first == FirstNonEmpty(ScanOrder, k)
       IN IF first = 0 THEN EventsFor(k) = <<>>
          ELSE /\ ProcessCalls(k) =
                    [i \in 1..first |-> Call("Process", ScanOrder[i].plugin_name, k)]
               /\ \A i \in DOMAIN EventsFor(k) :
                     EventsFor(k)[i].event.plugin = ScanOrder[first].plugin_name

\* ---------------------------------------------------------------- C2

\* C2: no event is yielded for a key by a plugin when a plugin registered at
\* a numerically lower weight also returns a non-empty result for that key.
C2_LowerWeightWins ==
  \A i \in DOMAIN emitted :
     \A j \in DOMAIN ScanOrder :
        ~ /\ ScanOrder[j].weight < ClassOf(emitted[i].event.plugin).weight
          /\ NonEmpty(Process(ScanOrder[j], hive, emitted[i].key))

\* ---------------------------------------------------------------- C5

\* C5: Parse never ends with the exception of a plugin's Process.
C5_PluginErrorAbsorbed == ~(pc = "raised" /\ error = "PluginError")

\* ---------------------------------------------------------------- C3

\* The parent of a key that is not the root.
Parent(k) == SubSeq(k, 1, Len(k) - 1)

\* The depth-first pre-order walk below a key, children in GetSubkeys order.
RECURSIVE PreOrder(_, _)
RECURSIVE PreOrderAll(_, _)
PreOrder(h, k) == <<k>> \o PreOrderAll(h, GetSubkeys(h, k))
PreOrderAll(h, ks) ==
  IF ks = <<>> THEN <<>>
  ELSE PreOrder(h, ks[1]) \o PreOrderAll(h, SubSeq(ks, 2, Len(ks)))

\* C3: _RecurseKey yields no key twice, yields the parent of every key it
\* yields before that key, and, once exhausted, has yielded every key of the
\* tree, in depth-first pre-order with the children in GetSubkeys order.
C3_PreOrderExactlyOnce ==
  /\ \A i, j \in DOMAIN visited : i # j => visited[i] # visited[j]
  /\ \A i \in DOMAIN visited :
        /\ visited[i] \in hive
        /\ visited[i] # <<>> =>
             \E j \in 1..(i - 1) : visited[j] = Parent(visited[i])
  /\ pc = "done" =>
        /\ Range(visited) = hive
        /\ visited = IF <<>> \in hive THEN PreOrder(hive, <<>>) ELSE <<>>

\* A walk that is over, of a tree with a key that has two children and a
\* key two levels below the root.
C3_Witness ==
  /\ pc = "done"
  /\ \E k \in hive : Len(GetSubkeys(hive, k)) >= 2
  /\ \E k \in hive : Len(k) >= 2
  /\ Len(visited) = Cardinality(hive)

\* ---------------------------------------------------------------- C4

\* Every required path of a type is a key of the hive.
Resolves(reg_type) == \A p \in Range(REG_TYPES(reg_type)) : p \in hive

\* The types, UNKNOWN apart, whose required paths all resolve.
Resolving == {t \in KnownTypes : Resolves(t)}

\* The place of a type in the enumeration order of REG_TYPES.
Position(reg_type) == CHOOSE i \in DOMAIN regTypeOrder : regTypeOrder[i] = reg_type

\* C4: once detection is over, a type other than UNKNOWN is returned only
\* when all its required paths resolve; the only resolving type is returned
\* when there is exactly one; UNKNOWN when there is none; the resolving type
\* that comes first in the enumeration order of REG_TYPES when there are
\* several; and no path was looked up on behalf of UNKNOWN.
C4_TypeDetection ==
  pc \notin {"start", "detect"} /\ error = "" =>
    /\ registry_type # "UNKNOWN" => Resolves(registry_type)
    /\ \A t \in KnownTypes : Resolving = {t} => registry_type = t
    /\ Resolving = {} => registry_type = "UNKNOWN"
    /\ Resolving # {} =>
         /\ registry_type \in Resolving
         /\ \A t \in Resolving : Position(registry_type) <= Position(t)
    /\ \A i \in DOMAIN calls :
         calls[i].op = "GetKeyByPath" =>
           /\ calls[i].arg \in KnownTypes
           /\ calls[i].key \in Range(REG_TYPES(calls[i].arg))
           /\ Position(calls[i].arg) <= Position(registry_type)
              \/ registry_type = "UNKNOWN"
    /\ self_registry_type = registry_type

\* Detection is over on a hive where the paths of two types resolve and
\* UNKNOWN comes first in the enumeration order.
C4_Witness ==
  /\ pc = "cache"
  /\ Cardinality(Resolving) = 2
  /\ regTypeOrder[1] = "UNKNOWN"
  /\ registry_type \in Resolving

\* ---------------------------------------------------------------- C6

\* The plugin Process was last called on for a key.
LastProcessed(k) == ProcessCalls(k)[Len(ProcessCalls(k))].arg

\* C6: every yielded event carries an offset that is not None, the detected
\* registry type and the name of the plugin that claimed its key.
C6_EventsCarryProvenance ==
  \A i \in DOMAIN emitted :
     /\ emitted[i].event.offset # None
     /\ emitted[i].event.registry_type = registry_type
     /\ emitted[i].event.plugin = LastProcessed(emitted[i].key)

\* ---------------------------------------------------------------- C7

\* C7: a yielded event has the offset of its key when the plugin left the
\* attribute unset, and the plugin's own value when the plugin set it.
C7_OffsetFromKeyWhenUnset ==
  \A i \in DOMAIN emitted :
     IF "offset" \in DOMAIN emitted[i].raw
     THEN emitted[i].event.offset = emitted[i].raw.offset
     ELSE emitted[i].event.offset = KeyOffset(emitted[i].key)

\* Both branches have happened: an event whose offset the plugin set to a
\* value other than its key's, and an event the plugin left without offset.
C7_Witness ==
  /\ \E i \in DOMAIN emitted :
        /\ "offset" \in DOMAIN emitted[i].raw
        /\ emitted[i].raw.offset \notin {None, KeyOffset(emitted[i].key)}
  /\ \E i \in DOMAIN emitted : "offset" \notin DOMAIN emitted[i].raw

\* ---------------------------------------------------------------- C8

\* The raw events yielded for a key, in order.
RawEventsFor(k) == [i \in DOMAIN EventsFor(k) |-> EventsFor(k)[i].raw]

\* The result that claimed a key: the result of the last Process call made
\* for it when that result is true, no event otherwise.
ClaimedEvents(k) ==
  IF ProcessCalls(k) # <<>> /\ Truthy(Process(ClassOf(LastProcessed(k)), hive, k))
  THEN Process(ClassOf(LastProcessed(k)), hive, k).events
  ELSE <<>>

\* C8: the events yielded for a key are events of the claiming plugin's
\* result, in its order and none twice; once the key is dispatched they are
\* all of them, one yielded event per event of the result.
C8_NoEventDropped ==
  \A n \in DOMAIN visited :
     LET k == visited[n]
         yielded == EventsFor(k)
         raw == [i \in DOMAIN yielded |-> yielded[i].raw]
         claimed == ClaimedEvents(k)
     IN /\ Len(raw) <= Len(claimed)
        /\ raw = SubSeq(claimed, 1, Len(raw))
        /\ \A i \in DOMAIN yielded : yielded[i].event.id = claimed[i].id
        /\ Dispatched(n) => Len(raw) = Len(claimed)

\* A dispatched key whose claiming plugin returned two events.
C8_Witness ==
  \E n \in DOMAIN visited :
     Dispatched(n) /\ Len(ClaimedEvents(visited[n])) = 2
       /\ Len(EventsFor(visited[n])) = 2

\* ---------------------------------------------------------------- C9

\* C9: on a hive without a root key Parse does not raise, the traversal
\* yields no key, Process is never called and no event is yielded; when
\* Parse has returned, the detection has looked up the paths of every type,
\* BuildCache has been called once and the type is UNKNOWN.
C9_NoRootKey ==
  file = "regf" /\ GetKeyByPath(hive, <<>>) = NoKey =>
    /\ pc # "raised"
    /\ visited = <<>>
    /\ emitted = <<>>
    /\ \A i \in DOMAIN calls : calls[i].op # "Process"
    /\ pc # "done" => ENABLED Next
    /\ pc = "done" =>
         /\ \A t \in KnownTypes :
               \E i \in DOMAIN calls : calls[i].op = "GetKeyByPath" /\ calls[i].arg = t
         /\ Cardinality({i \in DOMAIN calls : calls[i].op = "BuildCache"}) = 1
         /\ registry_type = "UNKNOWN"

\* Parse has returned on a hive without a root key, with plugins loaded.
C9_Witness ==
  /\ file = "regf"
  /\ GetKeyByPath(hive, <<>>) = NoKey
  /\ pc = "done"
  /\ ScanOrder # <<>>

\* ---------------------------------------------------------------- C10

\* The end-to-end run: a REGF file whose keys are the given key and the keys
\* on the way to it, and the one plugin registered at weight 10 for SOFTWARE
\* that returns one event without offset for a key named App Paths.
EndToEnd(appPaths) ==
  /\ file = "regf"
  /\ hive = HiveOf({appPaths})
  /\ catalog = <<ClassOf("AppPaths")>>

\* The expected outcome: type SOFTWARE and exactly one event, stamped with
\* the App Paths key's offset, SOFTWARE and the plugin's name.
EndToEndOutcome(appPaths) ==
  /\ registry_type = "SOFTWARE"
  /\ Len(emitted) = 1
  /\ emitted[1].key = appPaths
  /\ emitted[1].event.offset = KeyOffset(appPaths)
  /\ emitted[1].event.registry_type = "SOFTWARE"
  /\ emitted[1].event.plugin = "AppPaths"

\* C10 as stated: the hive holds \Software\Microsoft\Windows\CurrentVersion\App Paths.
C10_EndToEndUnderSoftwareKey ==
  EndToEnd(AppPathsUnderSoftware) /\ pc = "done" =>
    EndToEndOutcome(AppPathsUnderSoftware)

\* C10 amended: when the hive holds \Microsoft\Windows\CurrentVersion\App Paths
\* (the required key of SOFTWARE), the outcome is the expected one.
C10_EndToEndSoftwareHive ==
  EndToEnd(REG_TYPES("SOFTWARE")[1]) =>
    /\ pc # "raised"
    /\ Len(emitted) <= 1
    /\ pc = "done" => EndToEndOutcome(REG_TYPES("SOFTWARE")[1])

\* The amended end-to-end run is over.
C10_Witness ==
  /\ EndToEnd(REG_TYPES("SOFTWARE")[1])
  /\ pc = "done"
  /\ Len(emitted) = 1

\* ---------------------------------------------------------------- C11

\* A result that is present (not None) and holds no event.
PresentEmpty(cb) == ~cb.raises /\ cb.kind # "None" /\ Len(cb.events) = 0

\* C11: a plugin whose result for a key is present but holds no event does
\* not claim the key: once the key is dispatched, Process has also been
\* called on the plugin that follows it in the scan, when there is one.
C11_EmptyResultDeclines ==
  \A n \in DOMAIN visited :
     Dispatched(n) =>
       \A i \in 1..Len(ProcessCalls(visited[n])) :
          PresentEmpty(Process(ScanOrder[i], hive, visited[n])) /\ i < Len(ScanOrder)
            => Len(ProcessCalls(visited[n])) > i

\* ---------------------------------------------------------------- C12

\* The classes registered for one registry type only.
TypedClasses == {c \in PluginClasses : c.type # "ANY"}

\* Parse over every small tree with a catalog of such classes, which has a
\* plugin for the hive or has none according to the type detected.
InitNoPlugin ==
  /\ file = "regf"
  /\ hive \in Trees(MaxTreeKeys)
  /\ build \in Builds
  /\ regTypeOrder = RegTypeOrder(build)
  /\ catalog \in InjSeqs(TypedClasses, MaxPlugins)
  /\ weightList \in WeightLists(catalog)
  /\ pc = "start"
  /\ running = FALSE
  /\ registry_type = "UNKNOWN"
  /\ self_registry_type = "UNKNOWN"
  /\ plugins = [keys |-> <<>>, val |-> <<>>]
  /\ recurse = [started |-> FALSE, root |-> NoKey, stack |-> <<>>]
  /\ key = NoKey
  /\ parsed = FALSE
  /\ weights = <<>>
  /\ plist = <<>>
  /\ plugin = ""
  /\ call_back = [raises |-> FALSE, kind |-> "None", events |-> <<>>]
  /\ event_index = 0
  /\ error = ""
  /\ calls = <<>>
  /\ visited = <<>>
  /\ emitted = <<>>
  /\ other = NoOther

\* The consumer pulls Parse to exhaustion: next() is called again after
\* every event, and the generator runs until it yields, returns or raises.
SpecNoPlugin == InitNoPlugin /\ [][Next]_vars /\ WF_vars(Next)

\* The catalog has no plugin for the type of the hive at any weight.
NoPluginForType ==
  \A w \in Range(weightList) :
     GetWeightPlugins(catalog, w, DetectFrom(hive, regTypeOrder).type) = <<>>

\* C12: when the catalog has no plugin for the detected type at any weight,
\* Parse never raises, Process is never called, no event is yielded, and
\* Parse, pulled to exhaustion, returns.
C12_NoPluginNoEvent ==
  /\ [](NoPluginForType =>
          /\ pc # "raised"
          /\ emitted = <<>>
          /\ \A i \in DOMAIN calls : calls[i].op # "Process")
  /\ (NoPluginForType ~> pc = "done")

\* Parse has returned from a tree of a root and two more keys, with a
\* catalog that holds a class, though none for the type of the hive.
C12_Witness ==
  /\ NoPluginForType
  /\ pc = "done"
  /\ catalog # <<>>
  /\ Cardinality(hive) >= 3
  /\ Len(visited) = Cardinality(hive)

\* ---------------------------------------------------------------- C13

\* The hives of the runs with two streams: a root key alone, a SOFTWARE
\* hive, and a hive with the required keys of SYSTEM and SECURITY.
TwoStreamHives ==
  { HiveOf({<<>>}),
    HiveOf({REG_TYPES("SOFTWARE")[1]}),
    HiveOf({REG_TYPES("SYSTEM")[1], REG_TYPES("SECURITY")[1]}) }

\* The consumer calls next() for the first time on the generator of a second
\* Parse of the same parser object, between two next() of this one.  That
\* Parse runs lines 62-97 on its own hive and stores the type it detects in
\* the field of the object; what it does after that, in this next() and in
\* the later ones, writes nothing that this Parse reads.
OtherPull ==
  /\ other.present
  /\ other.pulls = 0
  /\ ~running
  /\ self_registry_type' = DetectFrom(other.hive, regTypeOrder).type
  /\ other' = [other EXCEPT !.pulls = 1]
  /\ UNCHANGED <<file, hive, build, regTypeOrder, catalog, weightList, pc,
                 running, registry_type, plugins, recurse, key, parsed,
                 weights, plist, plugin, call_back, event_index, error, calls,
                 visited, emitted>>

\* Two Parse streams of one parser object, each on a hive of its own, with
\* plugins that claim every key.
InitTwoStreams ==
  /\ file = "regf"
  /\ hive \in TwoStreamHives
  /\ build \in Builds
  /\ regTypeOrder = RegTypeOrder(build)
  /\ catalog \in {c \in Catalogs :
                    \A i \in DOMAIN c : c[i].plugin_name \in {"KeyAny", "Default"}}
  /\ weightList \in WeightLists(catalog)
  /\ pc = "start"
  /\ running = FALSE
  /\ registry_type = "UNKNOWN"
  /\ self_registry_type = "UNKNOWN"
  /\ plugins = [keys |-> <<>>, val |-> <<>>]
  /\ recurse = [started |-> FALSE, root |-> NoKey, stack |-> <<>>]
  /\ key = NoKey
  /\ parsed = FALSE
  /\ weights = <<>>
  /\ plist = <<>>
  /\ plugin = ""
  /\ call_back = [raises |-> FALSE, kind |-> "None", events |-> <<>>]
  /\ event_index = 0
  /\ error = ""
  /\ calls = <<>>
  /\ visited = <<>>
  /\ emitted = <<>>
  /\ other \in [present : {TRUE}, hive : TwoStreamHives, pulls : {0}]

NextTwoStreams ==
  \/ Next
  \/ OtherPull

SpecTwoStreams == InitTwoStreams /\ [][NextTwoStreams]_vars

\* C13: every event Parse yields is stamped with the type detected for the
\* hive of this Parse, the same for all its events, also while a second
\* Parse of the same object is pulled in between.
C13_TypeOfOwnHive ==
  \A i \in DOMAIN emitted :
     /\ emitted[i].event.registry_type = DetectFrom(hive, regTypeOrder).type
     /\ emitted[i].event.registry_type = emitted[1].event.registry_type

\* ---------------------------------------------------------------- C14

\* The names of the plugins Process was called on for a key, those of one
\* weight only, in the order of the calls.
ProcessedAt(k, weight) ==
  LET at == SelectSeq(ProcessCalls(k), LAMBDA c : ClassOf(c.arg).weight = weight)
  IN [i \in DOMAIN at |-> at[i].arg]

\* The names of the plugins GetWeightPlugins returns for a weight and the
\* detected type, in its order.
ReturnedAt(weight) ==
  LET classes == GetWeightPlugins(catalog, weight, registry_type)
  IN [i \in DOMAIN classes |-> classes[i].plugin_name]

\* The place of a plugin in what GetWeightPlugins returned for its weight.
PlaceAt(name) ==
  CHOOSE i \in DOMAIN ReturnedAt(ClassOf(name).weight) :
     ReturnedAt(ClassOf(name).weight)[i] = name

\* C14: within one weight, Process is called on the plugins for a key in
\* the order GetWeightPlugins returned them, none skipped; and no event is
\* yielded for a key by a plugin when a plugin of the same weight that comes
\* before it in that order also returns a non-empty result for the key.
C14_SameWeightInListOrder ==
  /\ \A n \in DOMAIN visited : \A w \in Range(weightList) :
        LET processed == ProcessedAt(visited[n], w)
            returned == ReturnedAt(w)
        IN /\ Len(processed) <= Len(returned)
           /\ processed = SubSeq(returned, 1, Len(processed))
  /\ \A i \in DOMAIN emitted :
        \A j \in 1..(PlaceAt(emitted[i].event.plugin) - 1) :
           ~NonEmpty(Process(
               ClassOf(ReturnedAt(ClassOf(emitted[i].event.plugin).weight)[j]),
               hive, emitted[i].key))

\* An event was yielded for a key by a plugin, and a plugin of the same
\* weight that comes after it in the list returns a non-empty result for
\* that key too.
C14_Witness ==
  \E i \in DOMAIN emitted :
     LET name == emitted[i].event.plugin
         returned == ReturnedAt(ClassOf(name).weight)
     IN \E j \in DOMAIN returned :
           /\ j > PlaceAt(name)
           /\ NonEmpty(Process(ClassOf(returned[j]), hive, emitted[i].key))

\* ---------------------------------------------------------------- C15

\* The place of a key in the traversal so far.
VisitedAt(k) == CHOOSE n \in DOMAIN visited : visited[n] = k

\* The Process calls made so far, in order.
AllProcessCalls == SelectSeq(calls, LAMBDA c : c.op = "Process")

\* C15: Process is called and events are yielded for the keys in traversal
\* order, one key after the other; every key before the one being handled
\* has had all the events of its claiming result yielded; a step that
\* yields an event yields one and hands control back; and while the
\* consumer is not inside next(), no key is visited, Process is not called
\* and nothing is yielded.
C15_NoRunAhead ==
  /\ [] /\ \A i \in 1..(Len(AllProcessCalls) - 1) :
             VisitedAt(AllProcessCalls[i].key)
               <= VisitedAt(AllProcessCalls[i + 1].key)
        /\ \A i \in 1..(Len(emitted) - 1) :
             VisitedAt(emitted[i].key) <= VisitedAt(emitted[i + 1].key)
        /\ \A i \in DOMAIN AllProcessCalls :
             AllProcessCalls[i].key \in Range(visited)
        /\ \A n \in 1..(Len(visited) - 1) :
             Len(EventsFor(visited[n])) = Len(ClaimedEvents(visited[n]))
        /\ pc = "events" /\ ~running =>
             emitted[Len(emitted)].key = visited[Len(visited)]
  /\ [][ /\ ~running => visited' = visited /\ calls' = calls /\ emitted' = emitted
         /\ emitted' # emitted =>
              /\ Len(emitted') = Len(emitted) + 1
              /\ ~running'
              /\ visited' = visited /\ calls' = calls ]_vars

\* The consumer holds the first event of the second key, the claiming
\* result has another event to give and the hive has keys not yet visited.
C15_Witness ==
  /\ ~running
  /\ pc = "events"
  /\ Len(visited) = 2
  /\ Len(EventsFor(visited[1])) = 2
  /\ Len(EventsFor(visited[2])) = 1
  /\ Len(call_back.events) = 2
  /\ Cardinality(hive) > 2

\* ---------------------------------------------------------------- C16

\* The places in the history of the calls of one operation.
CallsOf(op) == {i \in DOMAIN calls : calls[i].op = op}

\* C16: BuildCache is not called before the type is detected nor in a Parse
\* that fails to open the file; past that point it has been called exactly
\* once, for the detected type, after every path lookup of the detection
\* and before GetWeights, every plugin instantiation, the lookup of the
\* root key and every Process call.
C16_BuildCacheOnce ==
  IF pc \in {"start", "detect", "cache"} \/ error = "UnableToParseFile"
  THEN CallsOf("BuildCache") = {}
  ELSE /\ Cardinality(CallsOf("BuildCache")) = 1
       /\ \A b \in CallsOf("BuildCache") :
             /\ calls[b].arg = registry_type
             /\ \A i \in CallsOf("GetKeyByPath") :
                   IF calls[i].arg \in KnownTypes THEN i < b ELSE b < i
             /\ \A i \in CallsOf("GetWeights") \cup CallsOf("Instantiate")
                          \cup CallsOf("Process") : b < i

\* Parse has returned after path lookups of the detection, plugin
\* instantiations and Process calls on several keys.
C16_Witness ==
  /\ pc = "done"
  /\ \E i \in CallsOf("GetKeyByPath") : calls[i].arg \in KnownTypes
  /\ CallsOf("Instantiate") # {}
  /\ Cardinality(CallsOf("Process")) >= 3
  /\ Cardinality(CallsOf("BuildCache")) = 1

\* ---------------------------------------------------------------- C17

\* The malformed hives: a tree of at most MaxTreeKeys keys, one of whose
\* keys lists the root key among its subkeys.
CyclicHives ==
  UNION {{t \cup {Append(k, BackLink)} : k \in t} : t \in Trees(MaxTreeKeys)}

\* Parse over every such hive, with no plugin or with one that claims
\* every key.
InitCycle ==
  /\ file = "regf"
  /\ hive \in CyclicHives
  /\ build \in Builds
  /\ regTypeOrder = RegTypeOrder(build)
  /\ catalog \in {c \in Catalogs :
                    \A i \in DOMAIN c : c[i].plugin_name = "Default"}
  /\ weightList \in WeightLists(catalog)
  /\ pc = "start"
  /\ running = FALSE
  /\ registry_type = "UNKNOWN"
  /\ self_registry_type = "UNKNOWN"
  /\ plugins = [keys |-> <<>>, val |-> <<>>]
  /\ recurse = [started |-> FALSE, root |-> NoKey, stack |-> <<>>]
  /\ key = NoKey
  /\ parsed = FALSE
  /\ weights = <<>>
  /\ plist = <<>>
  /\ plugin = ""
  /\ call_back = [raises |-> FALSE, kind |-> "None", events |-> <<>>]
  /\ event_index = 0
  /\ error = ""
  /\ calls = <<>>
  /\ visited = <<>>
  /\ emitted = <<>>
  /\ other = NoOther

SpecCycle == InitCycle /\ [][Next]_vars

\* C17: over a key graph with a cycle the traversal yields no key twice and
\* Parse does not end with an exception of the traversal.
C17_CycleGuarded ==
  /\ \A i, j \in DOMAIN visited : i # j => visited[i] # visited[j]
  /\ ~(pc = "raised" /\ error = "RuntimeError")

\* ---------------------------------------------------------------- C18

\* The input cannot be parsed: wrong magic, or OpenFile raises IOError.
Unparseable == file \in {"wrong_magic", "io_error"}

\* What Parse does with an input that cannot be parsed: it ends with
\* UnableToParseFile at the first next(), having called nothing but read and
\* (with the right magic) OpenFile, and yields nothing.
FailsBeforeDetection ==
  Unparseable =>
    /\ pc \in {"start", "raised"}
    /\ pc = "raised" => error = "UnableToParseFile"
    /\ ~running => (pc = "raised" \/ calls = <<>>)
    /\ emitted = <<>>
    /\ visited = <<>>
    /\ \A i \in DOMAIN calls : calls[i].op \in {"read", "OpenFile"}
    /\ file = "wrong_magic" => CallsOf("OpenFile") = {}

\* C18: an input that cannot be parsed makes Parse fail with
\* UnableToParseFile before any detection, cache build, root lookup or
\* Process call and without an event, and without OpenFile when the magic is
\* wrong; and Parse ends with no exception other than UnableToParseFile.
C18_OnlyUnableToParseFile ==
  /\ FailsBeforeDetection
  /\ pc = "raised" => error = "UnableToParseFile"

\* ---------------------------------------------------------------- C19

\* Parse with catalogs of the classes that declare URLs or none, over a
\* root key alone and over a hive of four keys.
InitUrls ==
  /\ file = "regf"
  /\ hive \in {HiveOf({<<>>}),
               HiveOf({REG_TYPES("SYSTEM")[1], REG_TYPES("SECURITY")[1]})}
  /\ build \in Builds
  /\ regTypeOrder = RegTypeOrder(build)
  /\ catalog \in InjSeqs(UrlPluginClasses, MaxPlugins)
  /\ weightList \in WeightLists(catalog)
  /\ pc = "start"
  /\ running = FALSE
  /\ registry_type = "UNKNOWN"
  /\ self_registry_type = "UNKNOWN"
  /\ plugins = [keys |-> <<>>, val |-> <<>>]
  /\ recurse = [started |-> FALSE, root |-> NoKey, stack |-> <<>>]
  /\ key = NoKey
  /\ parsed = FALSE
  /\ weights = <<>>
  /\ plist = <<>>
  /\ plugin = ""
  /\ call_back = [raises |-> FALSE, kind |-> "None", events |-> <<>>]
  /\ event_index = 0
  /\ error = ""
  /\ calls = <<>>
  /\ visited = <<>>
  /\ emitted = <<>>
  /\ other = NoOther

SpecUrls == InitUrls /\ [][Next]_vars

\* The URLs the class of a plugin declares.
DeclaredURLs(name) == ClassOf(name).URLS

\* The URLs of a plugin joined with " - ", written out.
JoinedURLs(name) ==
  CASE DeclaredURLs(name) = <<"http://a", "http://b">> -> "http://a - http://b"
    [] DeclaredURLs(name) = <<"http://c">> -> "http://c"
    [] OTHER -> ""

\* C19: an event yielded for a key claimed by a plugin that declares URLs
\* has a url field, the plugin's URLs joined in order with " - "; an event
\* of a plugin that declares none or an empty collection has no url field.
C19_UrlFromPlugin ==
  \A i \in DOMAIN emitted :
     IF DeclaredURLs(emitted[i].event.plugin) # <<>>
     THEN /\ "url" \in DOMAIN emitted[i].event
          /\ emitted[i].event.url = JoinedURLs(emitted[i].event.plugin)
     ELSE "url" \notin DOMAIN emitted[i].event

====
